---------------------------- MODULE Spec2Model ----------------------------
(***************************************************************************)
(* Line Awesome icon catalog builder (build_icons.py).                     *)
(*                                                                         *)
(* Python strings are TLA+ strings; TLC evaluates Len, SubSeq, Tail and \o *)
(* on them character by character.  The unordered result of list(set(..))  *)
(* is a bag: it keeps how often an entry occurs and leaves the order out.  *)
(***************************************************************************)
EXTENDS Integers, Sequences, FiniteSets, Bags, TLC

VARIABLES
    file_lines,       \* the lines of /tmp/line-awesome-icons.txt, as read
    pc,               \* position of build_comprehensive_icon_list
    icon_names,       \* stripped non-blank lines
    idx,              \* 1-based position of the for loop in icon_names
    icon_name,        \* loop local
    category,         \* loop local
    keywords,         \* loop local
    icon_type,        \* loop local
    icons,            \* list of records built so far
    categories_used,  \* set of categories seen
    result,           \* the returned document
    fn_arg,           \* argument of a direct call of one classifier/formatter
    fn_ret            \* the values returned by the direct calls, in order

vars == <<file_lines, pc, icon_names, idx, icon_name, category, keywords,
          icon_type, icons, categories_used, result, fn_arg, fn_ret>>

build_vars == <<file_lines, pc, icon_names, idx, icon_name, category, keywords,
                icon_type, icons, categories_used, result>>

-----------------------------------------------------------------------------
(* Bounds of the model.                                                    *)

\* longest input file, in lines
MaxLines == 2
\* most hyphen-separated segments of a directly classified identifier
MaxSegs == 2
\* most successive applications of create_display_name to its own result
MaxApply == 3

-----------------------------------------------------------------------------
(* Python str and list built-ins.                                          *)

Char(s, i) == SubSeq(s, i, i)

Range(q) == {q[i] : i \in DOMAIN q}

\* sub in s
Contains(sub, s) ==
    \E i \in 1..(Len(s) - Len(sub) + 1) : SubSeq(s, i, i + Len(sub) - 1) = sub

\* s.endswith(suffix)
endswith(s, suffix) ==
    /\ Len(s) >= Len(suffix)
    /\ SubSeq(s, Len(s) - Len(suffix) + 1, Len(s)) = suffix

\* s[:-n]
drop_last(s, n) == SubSeq(s, 1, Len(s) - n)

Whitespace == {" ", "\t", "\n", "\r", "\f"}

RECURSIVE lstrip(_)
lstrip(s) ==
    IF s # "" /\ Char(s, 1) \in Whitespace THEN lstrip(Tail(s)) ELSE s

RECURSIVE rstrip(_)
rstrip(s) ==
    IF s # "" /\ Char(s, Len(s)) \in Whitespace
    THEN rstrip(SubSeq(s, 1, Len(s) - 1))
    ELSE s

\* s.strip()
strip(s) == rstrip(lstrip(s))

\* s.replace(old, new) for a one-character old
RECURSIVE replace(_, _, _)
replace(s, old, new) ==
    IF s = "" THEN ""
    ELSE (IF Char(s, 1) = old THEN new ELSE Char(s, 1)) \o replace(Tail(s), old, new)

\* position of the first character of s that is in cs, 0 when there is none
FirstOf(s, cs) ==
    LET hits == {i \in 1..Len(s) : Char(s, i) \in cs}
    IN  IF hits = {} THEN 0 ELSE CHOOSE i \in hits : \A j \in hits : i <= j

\* s.split(sep) for a one-character sep: empty pieces are kept
RECURSIVE split(_, _)
split(s, sep) ==
    LET i == FirstOf(s, {sep})
    IN  IF i = 0 THEN <<s>>
        ELSE <<SubSeq(s, 1, i - 1)>> \o split(SubSeq(s, i + 1, Len(s)), sep)

\* s.split(): runs of whitespace separate, empty pieces are dropped
RECURSIVE split_ws(_)
split_ws(s) ==
    LET t == lstrip(s)
        i == FirstOf(t, Whitespace)
    IN  IF t = "" THEN <<>>
        ELSE IF i = 0 THEN <<t>>
        ELSE <<SubSeq(t, 1, i - 1)>> \o split_ws(SubSeq(t, i + 1, Len(t)))

\* sep.join(words)
RECURSIVE join(_, _)
join(sep, words) ==
    IF words = <<>> THEN ""
    ELSE IF Len(words) = 1 THEN words[1]
    ELSE words[1] \o sep \o join(sep, Tail(words))

LowerCase == "abcdefghijklmnopqrstuvwxyz"
UpperCase == "ABCDEFGHIJKLMNOPQRSTUVWXYZ"

\* the character of `to` at the place c has in `from`; c itself when it has none
MapChar(c, from, to) ==
    LET i == FirstOf(from, {c}) IN IF i = 0 THEN c ELSE Char(to, i)

RECURSIVE upper(_)
upper(s) ==
    IF s = "" THEN "" ELSE MapChar(Char(s, 1), LowerCase, UpperCase) \o upper(Tail(s))

RECURSIVE lower(_)
lower(s) ==
    IF s = "" THEN "" ELSE MapChar(Char(s, 1), UpperCase, LowerCase) \o lower(Tail(s))

IsLetter(c) == FirstOf(LowerCase, {c}) # 0 \/ FirstOf(UpperCase, {c}) # 0

\* s.capitalize(): first character upper case, all the others lower case
capitalize(s) ==
    IF s = "" THEN "" ELSE upper(Char(s, 1)) \o lower(Tail(s))

\* s.title(): a letter after a non-letter is upper case, after a letter lower case
RECURSIVE title_from(_, _)
title_from(s, after_letter) ==
    IF s = "" THEN ""
    ELSE LET c == Char(s, 1)
         IN  (IF after_letter THEN lower(c) ELSE upper(c))
                 \o title_from(Tail(s), IsLetter(c))

title(s) == title_from(s, FALSE)

\* the list q as a bag: order left out, multiplicity kept
ListToBag(q) ==
    [e \in Range(q) |-> Cardinality({i \in DOMAIN q : q[i] = e})]

\* list(S) of a set S: every element once, in an order the language does not fix
list_of_set(S) == SetToBag(S)

-----------------------------------------------------------------------------
(* categorize_icon: the membership tables, in the order the dict lists     *)
(* them.                                                                   *)

brand_icons ==
    {
      "500px", "accusoft", "adobe", "affiliatetheme", "airbnb", "algolia", "alipay",
      "amazon", "amazon-pay", "android", "angellist", "angrycreative", "angular",
      "app-store", "app-store-ios", "apper", "apple-pay", "artstation", "asymmetrik",
      "atlassian", "audible", "autoprefixer", "avianex", "aviato", "aws", "bandcamp",
      "battle-net", "behance", "behance-square", "bimobject", "bitbucket",
      "bitbucket-square", "bitcoin", "bity", "black-tie", "blackberry", "blogger",
      "blogger-b", "bootstrap", "btc", "buffer", "buromobelexperte", "buy-n-large",
      "buysellads", "centercode", "centos", "chrome", "chromecast", "cloudscale",
      "cloudsmith", "cloudversify", "codepen", "codiepie", "confluence", "connectdevelop",
      "contao", "cotton-bureau", "cpanel", "creative-commons", "critical-role", "css3",
      "css3-alt", "cuttlefish", "d-and-d", "d-and-d-beyond", "dashcube", "delicious",
      "deploydog", "deskpro", "dev", "deviantart", "digg", "digital-ocean", "discord",
      "discourse", "dochub", "docker", "draft2digital", "dribbble", "dribbble-square",
      "dropbox", "drupal", "dyalog", "earlybirds", "ebay", "edge", "elementor", "ello",
      "ember", "empire", "envira", "erlang", "ethereum", "etsy", "evernote", "expeditedssl",
      "facebook", "facebook-f", "facebook-messenger", "facebook-square",
      "fantasy-flight-games", "fedex", "fedora", "figma", "firefox", "first-order",
      "first-order-alt", "firstdraft", "flickr", "flipboard", "fly", "font-awesome",
      "font-awesome-alt", "font-awesome-flag", "fonticons", "fonticons-fi", "fort-awesome",
      "fort-awesome-alt", "forumbee", "foursquare", "free-code-camp", "freebsd", "fulcrum",
      "galactic-republic", "galactic-senate", "get-pocket", "gg", "gg-circle", "git",
      "git-alt", "git-square", "github", "github-alt", "github-square", "gitkraken",
      "gitlab", "gitter", "glide", "glide-g", "gofore", "goodreads", "goodreads-g", "google",
      "google-drive", "google-play", "google-plus", "google-plus-g", "google-plus-square",
      "google-wallet", "gratipay", "grav", "gripfire", "grunt", "gulp", "hacker-news",
      "hacker-news-square", "hackerrank", "hips", "hire-a-helper", "hooli", "hornbill",
      "hotjar", "houzz", "html5", "hubspot", "imdb", "instagram", "intercom",
      "internet-explorer", "invision", "ioxhost", "itch-io", "itunes", "java", "jenkins",
      "jira", "joget", "joomla", "js", "js-square", "jsfiddle", "kaggle", "keybase",
      "keycdn", "kickstarter", "kickstarter-k", "korvue", "laravel", "lastfm",
      "lastfm-square", "leanpub", "less", "line", "linkedin", "linkedin-in",
      "linkedin-square", "linode", "linux", "lyft", "magento", "mailchimp", "mandalorian",
      "markdown", "mastodon", "maxcdn", "mdb", "meanpath", "medapps", "medium", "medium-m",
      "medrt", "meetup", "megaport", "mendeley", "microsoft", "mix", "mixcloud", "mizuni",
      "modx", "monero", "napster", "neos", "nimblr", "node", "node-js", "npm", "ns8",
      "nutritionix", "odnoklassniki", "odnoklassniki-square", "old-republic", "opencart",
      "openid", "opera", "optin-monster", "orcid", "osi", "page4", "pagelines", "palfed",
      "patreon", "paypal", "penny-arcade", "periscope", "phabricator", "phoenix-framework",
      "phoenix-squadron", "php", "pied-piper", "pied-piper-alt", "pied-piper-hat",
      "pied-piper-pp", "pinterest", "pinterest-p", "pinterest-square", "playstation",
      "product-hunt", "pushed", "python", "qq", "quinscape", "quora", "r-project",
      "raspberry-pi", "ravelry", "react", "reacteurope", "readme", "rebel", "red-river",
      "reddit", "reddit-alien", "reddit-square", "redhat", "renren", "replyd",
      "researchgate", "resistance", "resolving", "rev", "rocketchat", "rockrms", "s15",
      "safari", "salesforce", "sass", "schlix", "scribd", "searchengin", "sellcast",
      "sellsy", "servicestack", "shirtsinbulk", "shopware", "simplybuilt", "sistrix", "sith",
      "sketch", "skyatlas", "skype", "slack", "slack-hash", "slideshare", "snapchat",
      "snapchat-ghost", "snapchat-square", "soundcloud", "sourcetree", "speakap",
      "speaker-deck", "spotify", "squarespace", "stack-exchange", "stack-overflow",
      "stackpath", "staylinked", "steam", "steam-square", "steam-symbol", "sticker-mule",
      "strava", "stripe", "stripe-s", "studiovinari", "stumbleupon", "stumbleupon-circle",
      "superpowers", "supple", "suse", "swift", "symfony", "teamspeak", "telegram",
      "telegram-plane", "tencent-weibo", "the-red-yeti", "themeco", "themeisle",
      "think-peaks", "trade-federation", "trello", "tripadvisor", "tumblr", "tumblr-square",
      "twitch", "twitter", "twitter-square", "typo3", "uber", "ubuntu", "uikit", "umbraco",
      "uniregistry", "untappd", "ups", "usps", "ussunnah", "vaadin", "viacoin", "viadeo",
      "viadeo-square", "viber", "vimeo", "vimeo-square", "vimeo-v", "vine", "vk", "vnv",
      "vuejs", "waze", "wechat", "weebly", "weibo", "weixin", "whatsapp", "whatsapp-square",
      "whmcs", "wikipedia-w", "windows", "wix", "wizards-of-the-coast",
      "wolf-pack-battalion", "wordpress", "wordpress-simple", "wpbeginner", "wpexplorer",
      "wpforms", "wpressr", "xbox", "xing", "xing-square", "y-combinator",
      "y-combinator-square", "yahoo", "yammer", "yandex", "yandex-international", "yarn",
      "yc", "yc-square", "yelp", "yoast", "youtube", "youtube-square", "zhihu"
    }

accessibility_icons ==
    {
      "accessible-icon", "american-sign-language-interpreting",
      "assistive-listening-systems", "audio-description", "blind", "braille", "deaf",
      "deafness", "hard-of-hearing", "low-vision", "sign-language", "universal-access",
      "wheelchair", "wheelchair-alt"
    }

arrows_icons ==
    {
      "angle-double-down", "angle-double-left", "angle-double-right", "angle-double-up",
      "angle-down", "angle-left", "angle-right", "angle-up", "arrow-alt-circle-down",
      "arrow-alt-circle-left", "arrow-alt-circle-right", "arrow-alt-circle-up",
      "arrow-circle-down", "arrow-circle-left", "arrow-circle-right", "arrow-circle-up",
      "arrow-down", "arrow-left", "arrow-right", "arrow-up", "arrows", "arrows-alt",
      "arrows-alt-h", "arrows-alt-v", "arrows-h", "arrows-v", "caret-down", "caret-left",
      "caret-right", "caret-up", "chevron-circle-down", "chevron-circle-left",
      "chevron-circle-right", "chevron-circle-up", "chevron-down", "chevron-left",
      "chevron-right", "chevron-up", "compress", "compress-arrows-alt", "exchange",
      "exchange-alt", "expand", "expand-arrows-alt", "external-link", "external-link-alt",
      "external-link-square", "external-link-square-alt", "level-down", "level-down-alt",
      "level-up", "level-up-alt", "location-arrow", "long-arrow-alt-down",
      "long-arrow-alt-left", "long-arrow-alt-right", "long-arrow-alt-up", "long-arrow-down",
      "long-arrow-left", "long-arrow-right", "long-arrow-up", "random", "redo", "redo-alt",
      "reply", "reply-all", "retweet", "share", "share-alt", "share-alt-square",
      "share-square", "step-backward", "step-forward", "sync", "sync-alt", "undo", "undo-alt"
    }

medical_icons ==
    {
      "allergies", "ambulance", "band-aid", "briefcase-medical", "capsules",
      "clinic-medical", "comment-medical", "diagnoses", "dna", "file-medical",
      "file-medical-alt", "first-aid", "heartbeat", "hospital", "hospital-alt",
      "hospital-symbol", "laptop-medical", "medkit", "microscope", "notes-medical", "pills",
      "plus", "prescription", "prescription-bottle", "prescription-bottle-alt", "procedures",
      "stethoscope", "syringe", "tablets", "teeth", "teeth-open", "thermometer", "tooth",
      "user-md", "user-nurse", "vial", "vials", "x-ray"
    }

communication_icons ==
    {
      "address-book", "address-card", "at", "bell", "bell-slash", "bullhorn", "comment",
      "comment-alt", "comment-dots", "comment-slash", "commenting", "comments", "envelope",
      "envelope-open", "envelope-open-text", "envelope-square", "fax", "inbox", "language",
      "mail-bulk", "microphone", "microphone-alt", "microphone-alt-slash",
      "microphone-slash", "mobile", "mobile-alt", "phone", "phone-alt", "phone-slash",
      "phone-square", "phone-square-alt", "phone-volume", "rss", "rss-square", "satellite",
      "satellite-dish", "sms", "voicemail", "volume-down", "volume-mute", "volume-off",
      "volume-up", "wifi"
    }

files_icons ==
    {
      "archive", "book", "book-dead", "book-medical", "book-open", "book-reader", "bookmark",
      "clipboard", "clipboard-check", "clipboard-list", "copy", "file", "file-alt",
      "file-archive", "file-audio", "file-code", "file-contract", "file-csv",
      "file-download", "file-excel", "file-export", "file-image", "file-import",
      "file-invoice", "file-invoice-dollar", "file-pdf", "file-powerpoint",
      "file-prescription", "file-signature", "file-text", "file-upload", "file-video",
      "file-word", "folder", "folder-minus", "folder-open", "folder-plus", "paste", "save",
      "scroll", "sticky-note"
    }

interface_icons ==
    {
      "adjust", "bars", "border-all", "border-none", "border-style", "cog", "cogs",
      "columns", "compress", "desktop", "download", "edit", "ellipsis-h", "ellipsis-v",
      "expand", "eye", "eye-slash", "filter", "grip-horizontal", "grip-lines",
      "grip-lines-vertical", "grip-vertical", "home", "i-cursor", "list", "list-alt",
      "list-ol", "list-ul", "lock", "lock-open", "menu", "minus", "minus-circle",
      "minus-square", "mouse-pointer", "navicon", "plus", "plus-circle", "plus-square",
      "power-off", "search", "search-minus", "search-plus", "server", "settings", "sliders",
      "sliders-h", "sort", "sort-down", "sort-up", "table", "tablet", "tablet-alt", "tasks",
      "th", "th-large", "th-list", "times", "times-circle", "toggle-off", "toggle-on",
      "tools", "trash", "trash-alt", "trash-restore", "trash-restore-alt", "unlock",
      "unlock-alt", "upload", "window-close", "window-maximize", "window-minimize",
      "window-restore"
    }

text_icons ==
    {
      "align-center", "align-justify", "align-left", "align-right", "bold", "font",
      "heading", "highlighter", "italic", "paragraph", "quote-left", "quote-right",
      "strikethrough", "subscript", "superscript", "text-height", "text-width", "underline"
    }

emotions_icons ==
    {
      "angry", "dizzy", "flushed", "frown", "frown-open", "grimace", "grin", "grin-alt",
      "grin-beam", "grin-beam-sweat", "grin-hearts", "grin-squint", "grin-squint-tears",
      "grin-stars", "grin-tears", "grin-tongue", "grin-tongue-squint", "grin-tongue-wink",
      "grin-wink", "kiss", "kiss-beam", "kiss-wink-heart", "laugh", "laugh-beam",
      "laugh-squint", "laugh-wink", "meh", "meh-blank", "meh-rolling-eyes", "sad-cry",
      "sad-tear", "smile", "smile-beam", "smile-wink", "surprise", "tired"
    }

transportation_icons ==
    {
      "bicycle", "bus", "bus-alt", "car", "car-alt", "car-battery", "car-crash", "car-side",
      "motorcycle", "plane", "plane-arrival", "plane-departure", "ship", "shuttle-van",
      "subway", "taxi", "train", "tram", "truck", "truck-loading", "truck-monster",
      "truck-moving", "truck-pickup"
    }

food_icons ==
    {
      "apple-alt", "bacon", "beer", "birthday-cake", "bread-slice", "candy-cane", "carrot",
      "cheese", "cocktail", "coffee", "cookie", "cookie-bite", "cutlery", "drumstick-bite",
      "egg", "hamburger", "hotdog", "ice-cream", "lemon", "pepper-hot", "pizza-slice",
      "utensil-spoon", "utensils", "wine-bottle", "wine-glass", "wine-glass-alt"
    }

science_icons ==
    {
      "atom", "battery", "battery-empty", "battery-full", "battery-half", "battery-quarter",
      "battery-three-quarters", "beaker", "biohazard", "brain", "burn", "calculator",
      "cloud", "dna", "fire", "flask", "magnet", "microscope", "radiation", "radiation-alt",
      "rainbow", "seedling", "solar-panel", "temperature-high", "temperature-low"
    }

\* the keys of categories, in insertion order (the order the for loop visits)
categories_keys ==
    <<
      "brand", "accessibility", "arrows", "medical", "communication", "files", "interface",
      "text", "emotions", "transportation", "food", "science"
    >>

categories ==
    [
      brand |-> brand_icons, accessibility |-> accessibility_icons, arrows |-> arrows_icons,
      medical |-> medical_icons, communication |-> communication_icons,
      files |-> files_icons, interface |-> interface_icons, text |-> text_icons,
      emotions |-> emotions_icons, transportation |-> transportation_icons,
      food |-> food_icons, science |-> science_icons
    ]

category_keywords ==
    [
      accessibility |-> <<"accessibility", "disabled", "universal", "access">>,
      arrows |-> <<"arrow", "direction", "navigation", "movement">>,
      medical |-> <<"medical", "health", "healthcare", "hospital">>,
      communication |-> <<"communication", "contact", "message", "talk">>,
      files |-> <<"file", "document", "storage", "data">>,
      interface |-> <<"interface", "ui", "control", "button">>,
      text |-> <<"text", "typography", "format", "writing">>,
      emotions |-> <<"emotion", "face", "feeling", "expression">>,
      transportation |-> <<"transport", "vehicle", "travel", "movement">>,
      food |-> <<"food", "dining", "meal", "kitchen">>,
      science |-> <<"science", "research", "laboratory", "technology">>
    ]

brand_indicators ==
    {
      "facebook", "twitter", "instagram", "youtube", "google", "apple", "microsoft",
      "amazon", "github", "linkedin", "pinterest", "reddit", "snapchat", "spotify",
      "netflix", "paypal", "visa", "mastercard", "bitcoin", "ethereum", "android", "windows",
      "adobe", "angular", "react", "vue", "node", "npm", "python", "php"
    }

regular_indicators == {"-o", "outline", "regular"}

prefix_map == [solid |-> "las", regular |-> "lar", brand |-> "lab"]

special_cases ==
    ("alt" :> "Alternative") @@ ("o" :> "") @@ ("usa" :> "USA") @@ ("usd" :> "USD")
    @@ ("eur" :> "EUR") @@ ("gbp" :> "GBP") @@ ("jpy" :> "JPY") @@ ("krw" :> "KRW")
    @@ ("inr" :> "INR") @@ ("cny" :> "CNY") @@ ("btc" :> "BTC") @@ ("eth" :> "ETH")
    @@ ("id" :> "ID") @@ ("api" :> "API") @@ ("url" :> "URL") @@ ("html" :> "HTML")
    @@ ("css" :> "CSS") @@ ("js" :> "JavaScript") @@ ("php" :> "PHP") @@ ("sql" :> "SQL")
    @@ ("xml" :> "XML") @@ ("json" :> "JSON") @@ ("pdf" :> "PDF") @@ ("csv" :> "CSV")
    @@ ("rss" :> "RSS") @@ ("wifi" :> "WiFi") @@ ("usb" :> "USB") @@ ("gps" :> "GPS")
    @@ ("sms" :> "SMS") @@ ("ui" :> "UI") @@ ("ux" :> "UX") @@ ("seo" :> "SEO")
    @@ ("cms" :> "CMS") @@ ("crm" :> "CRM") @@ ("erp" :> "ERP") @@ ("aws" :> "AWS")
    @@ ("cdn" :> "CDN") @@ ("dns" :> "DNS") @@ ("vpn" :> "VPN") @@ ("ssh" :> "SSH")
    @@ ("ftp" :> "FTP") @@ ("http" :> "HTTP") @@ ("https" :> "HTTPS")

category_descriptions ==
    ("accessibility" :> "Accessibility & Universal Access")
    @@ ("achievements" :> "Awards & Achievements")
    @@ ("arrows" :> "Arrows & Directions")
    @@ ("brand" :> "Brand & Social Media")
    @@ ("buildings" :> "Buildings & Architecture")
    @@ ("business" :> "Business & Commerce")
    @@ ("communication" :> "Communication & Contact")
    @@ ("emotions" :> "Emotions & Expressions")
    @@ ("files" :> "Files & Documents")
    @@ ("food" :> "Food & Dining")
    @@ ("geography" :> "Geography & Maps")
    @@ ("household" :> "Home & Household")
    @@ ("interface" :> "Interface & Controls")
    @@ ("maritime" :> "Maritime & Nautical")
    @@ ("medical" :> "Medical & Health")
    @@ ("misc" :> "Miscellaneous")
    @@ ("science" :> "Science & Research")
    @@ ("symbols" :> "Symbols & Signs")
    @@ ("text" :> "Text & Typography")
    @@ ("transportation" :> "Transportation & Vehicles")

-----------------------------------------------------------------------------
(* categorize_icon                                                         *)

\* any(brand in icon_name for brand in categories['brand'])
has_brand_substring(name) ==
    \E brand \in categories["brand"] : Contains(brand, name)

\* match_tables without the break: the last table that holds the name decides
RECURSIVE match_tables_no_break(_, _, _)
match_tables_no_break(name, i, cat) ==
    IF i > Len(categories_keys) THEN cat
    ELSE match_tables_no_break(name, i + 1,
             IF name \in categories[categories_keys[i]] THEN categories_keys[i] ELSE cat)

\* match_tables that leaves a brand pre-seed alone
RECURSIVE match_tables_keep_brand(_, _, _)
match_tables_keep_brand(name, i, cat) ==
    IF i > Len(categories_keys) \/ cat = "brand" THEN cat
    ELSE IF name \in categories[categories_keys[i]] THEN categories_keys[i]
    ELSE match_tables_keep_brand(name, i + 1, cat)

\* for cat_name, icons in categories.items(): the first table that holds
\* the name decides and ends the loop; without a match the category stays
RECURSIVE match_tables(_, _, _)
match_tables(name, i, cat) ==
    IF i > Len(categories_keys) THEN cat
    ELSE IF name \in categories[categories_keys[i]] THEN categories_keys[i]
    ELSE match_tables(name, i + 1, cat)

\* icon_name.replace('-', ' ').split()
icon_words(name) == split_ws(replace(name, "-", " "))

\* keywords.extend(category_keywords[category]) when the category has any
add_category_keywords(kws, cat) ==
    IF cat \in DOMAIN category_keywords THEN kws \o category_keywords[cat] ELSE kws

\* remove_duplicates that keeps the list as it is
keep_duplicates(kws) == ListToBag(kws)

\* keywords = list(set(keywords))
remove_duplicates(kws) == list_of_set(Range(kws))

\* keywords = [k for k in keywords if k and len(k) > 1]
clean_up(kws) ==
    [e \in {k \in DOMAIN kws : k # "" /\ Len(k) > 1} |-> kws[e]]

\* returns <<category, keywords>>
categorize_icon(name) ==
    LET brand  == has_brand_substring(name)
        seed   == IF brand THEN <<"brand", "social", "platform", "service">> ELSE <<>>
        cat    == match_tables(name, 1, IF brand THEN "brand" ELSE "misc")
        listed == add_category_keywords(seed \o icon_words(name), cat)
    IN  <<cat, clean_up(remove_duplicates(listed))>>

-----------------------------------------------------------------------------
(* determine_icon_type, get_css_class, create_display_name                 *)

\* determine_icon_type with the outline check ahead of the brand check
determine_icon_type_regular_first(name) ==
    IF \E indicator \in regular_indicators : Contains(indicator, name) THEN "regular"
    ELSE IF \E brand \in brand_indicators : Contains(brand, name) THEN "brand"
    ELSE "solid"

determine_icon_type(name) ==
    IF \E brand \in brand_indicators : Contains(brand, name) THEN "brand"
    ELSE IF \E indicator \in regular_indicators : Contains(indicator, name) THEN "regular"
    ELSE "solid"

\* get_css_class with the type's prefix in the second token too
get_css_class_prefixed(name, type) ==
    prefix_map[type] \o " " \o prefix_map[type] \o "-" \o name

\* f"{prefix_map[icon_type]} la-{icon_name}"
get_css_class(name, type) == prefix_map[type] \o " la-" \o name

\* process_words that looks a word up without regard to its case
RECURSIVE process_words_any_case(_)
process_words_any_case(words) ==
    IF words = <<>> THEN <<>>
    ELSE LET word == lower(Head(words))
             rest == process_words_any_case(Tail(words))
         IN  IF word \in DOMAIN special_cases
             THEN (IF special_cases[word] # "" THEN <<special_cases[word]>> ELSE <<>>) \o rest
             ELSE <<capitalize(Head(words))>> \o rest

\* process_words that appends a table value even when it is empty
RECURSIVE process_words_keep_empty(_)
process_words_keep_empty(words) ==
    IF words = <<>> THEN <<>>
    ELSE LET word == Head(words)
             rest == process_words_keep_empty(Tail(words))
         IN  IF word \in DOMAIN special_cases
             THEN <<special_cases[word]>> \o rest
             ELSE <<capitalize(word)>> \o rest

\* the loop over words: a table key gives its value unless that is empty,
\* any other word is capitalized
RECURSIVE process_words(_)
process_words(words) ==
    IF words = <<>> THEN <<>>
    ELSE LET word == Head(words)
             rest == process_words(Tail(words))
         IN  IF word \in DOMAIN special_cases
             THEN (IF special_cases[word] # "" THEN <<special_cases[word]>> ELSE <<>>) \o rest
             ELSE <<capitalize(word)>> \o rest

create_display_name(name) == join(" ", process_words(split(name, "-")))

-----------------------------------------------------------------------------
(* build_comprehensive_icon_list                                           *)

\* [line.strip() for line in f if line.strip()]
RECURSIVE read_icon_names(_)
read_icon_names(lines) ==
    IF lines = <<>> THEN <<>>
    ELSE (IF strip(Head(lines)) # "" THEN <<strip(Head(lines))>> ELSE <<>>)
             \o read_icon_names(Tail(lines))

\* outline_records with the solid record ahead of the regular one
outline_records_solid_first(base_name, cat, kws) ==
    << [name        |-> base_name,
        displayName |-> create_display_name(base_name),
        cssClass    |-> "las la-" \o base_name,
        iconType    |-> "solid",
        category    |-> cat,
        keywords    |-> kws],
       [name        |-> base_name,
        displayName |-> create_display_name(base_name),
        cssClass    |-> "lar la-" \o base_name,
        iconType    |-> "regular",
        category    |-> cat,
        keywords    |-> kws] >>

\* the two records of an identifier that ends with '-o'
outline_records(base_name, cat, kws) ==
    << [name        |-> base_name,
        displayName |-> create_display_name(base_name),
        cssClass    |-> "lar la-" \o base_name,
        iconType    |-> "regular",
        category    |-> cat,
        keywords    |-> kws],
       [name        |-> base_name,
        displayName |-> create_display_name(base_name),
        cssClass    |-> "las la-" \o base_name,
        iconType    |-> "solid",
        category    |-> cat,
        keywords    |-> kws] >>

\* the one record of any other identifier
single_record(name, type, cat, kws) ==
    << [name        |-> name,
        displayName |-> create_display_name(name),
        cssClass    |-> get_css_class(name, type),
        iconType    |-> type,
        category    |-> cat,
        keywords    |-> kws] >>

\* append_all that puts the new records in front of the list
insert_in_front(list, recs) == recs \o list

\* icons.append(r) for every record r of recs, in order
append_all(list, recs) == list \o recs

\* category_descriptions.get(cat, cat.title())
describe(cat) ==
    IF cat \in DOMAIN category_descriptions THEN category_descriptions[cat] ELSE title(cat)

\* final_structure that describes every category it knows, and
\* final_structure that counts the identifiers instead of the records
final_structure_all_categories(recs, used) ==
    [metadata   |-> [version     |-> "1.3.0",
                     totalIcons  |-> Len(recs),
                     description |-> "Line Awesome - Free icon font replacement for Font Awesome",
                     source      |-> "https://icons8.com/line-awesome",
                     license     |-> "MIT",
                     lastUpdated |-> "2025-09-16",
                     categories  |-> list_of_set(used),
                     iconTypes   |-> <<"solid", "regular", "brand">>],
     icons      |-> recs,
     categories |-> category_descriptions]

final_structure_counts_names(recs, used) ==
    [metadata   |-> [version     |-> "1.3.0",
                     totalIcons  |-> Len(icon_names),
                     description |-> "Line Awesome - Free icon font replacement for Font Awesome",
                     source      |-> "https://icons8.com/line-awesome",
                     license     |-> "MIT",
                     lastUpdated |-> "2025-09-16",
                     categories  |-> list_of_set(used),
                     iconTypes   |-> <<"solid", "regular", "brand">>],
     icons      |-> recs,
     categories |-> [cat \in used |-> describe(cat)]]

\* the final structure
final_structure(recs, used) ==
    [metadata   |-> [version     |-> "1.3.0",
                     totalIcons  |-> Len(recs),
                     description |-> "Line Awesome - Free icon font replacement for Font Awesome",
                     source      |-> "https://icons8.com/line-awesome",
                     license     |-> "MIT",
                     lastUpdated |-> "2025-09-16",
                     categories  |-> list_of_set(used),
                     iconTypes   |-> <<"solid", "regular", "brand">>],
     icons      |-> recs,
     categories |-> [cat \in used |-> describe(cat)]]

\* raw lines the input file is made of
LinePool ==
    { "home\n", "  star-o \n", "facebook-o\n", "lock-open\n", "google-outline\n",
      "js\n", "underline\n", "circle-regular\n", "bell\n", "bell-o\n",
      "\n", " \t\n" }

\* all lists of at most n elements of S
SeqsUpTo(S, n) == UNION {[1..k -> S] : k \in 0..n}

Init ==
    /\ file_lines \in SeqsUpTo(LinePool, MaxLines)
    /\ pc = "open"
    /\ icon_names = <<>>
    /\ idx = 0
    /\ icon_name = ""
    /\ category = ""
    /\ keywords = EmptyBag
    /\ icon_type = ""
    /\ icons = <<>>
    /\ categories_used = {}
    /\ result = <<>>
    /\ fn_arg = ""
    /\ fn_ret = <<>>

\* lines 346-350: read the file, start with no record and no category
ReadFile ==
    /\ pc = "open"
    /\ icon_names' = read_icon_names(file_lines)
    /\ icons' = <<>>
    /\ categories_used' = {}
    /\ idx' = 1
    /\ pc' = "loop"
    /\ UNCHANGED <<file_lines, icon_name, category, keywords, icon_type, result,
                   fn_arg, fn_ret>>

\* lines 352-390: one pass of the for loop
LoopBody ==
    /\ pc = "loop"
    /\ idx <= Len(icon_names)
    /\ LET n  == icon_names[idx]
           ck == categorize_icon(n)
           t  == determine_icon_type(n)
       IN  /\ icon_name' = n
           /\ IF n = ""
              THEN UNCHANGED <<category, keywords, icon_type, icons, categories_used>>
              ELSE /\ category' = ck[1]
                   /\ keywords' = ck[2]
                   /\ categories_used' = categories_used \cup {ck[1]}
                   /\ icon_type' = t
                   /\ icons' = append_all(icons,
                          IF endswith(n, "-o")
                          THEN outline_records(drop_last(n, 2), ck[1], ck[2])
                          ELSE single_record(n, t, ck[1], ck[2]))
    /\ idx' = idx + 1
    /\ UNCHANGED <<file_lines, pc, icon_names, result, fn_arg, fn_ret>>

\* lines 392-432: the loop is over, build and return the document
Return ==
    /\ pc = "loop"
    /\ idx > Len(icon_names)
    /\ result' = final_structure(icons, categories_used)
    /\ pc' = "done"
    /\ UNCHANGED <<file_lines, icon_names, idx, icon_name, category, keywords,
                   icon_type, icons, categories_used, fn_arg, fn_ret>>

Next == ReadFile \/ LoopBody \/ Return

Spec == Init /\ [][Next]_vars

-----------------------------------------------------------------------------
(* Direct calls of categorize_icon and of create_display_name.             *)

\* word segments identifiers are built of
Segments ==
    { "file", "pdf", "x", "ray", "toggle", "on", "plus", "underline", "js", "o",
      "star", "google" }

RECURSIVE Identifiers(_)
Identifiers(n) ==
    IF n = 0 THEN {}
    ELSE IF n = 1 THEN Segments
    ELSE LET shorter == Identifiers(n - 1)
         IN  shorter \cup {a \o "-" \o s : a \in shorter, s \in Segments}

\* identifiers the segments do not give
MoreIdentifiers == {"hard-of-hearing", "-o", "dna", "compress", "egg", "wifi", "bell-o"}

CallArguments == Identifiers(MaxSegs) \cup MoreIdentifiers \cup DOMAIN special_cases

InitCall ==
    /\ fn_arg \in CallArguments
    /\ fn_ret = <<>>
    /\ file_lines = <<>>
    /\ pc = "call"
    /\ icon_names = <<>>
    /\ idx = 0
    /\ icon_name = ""
    /\ category = ""
    /\ keywords = EmptyBag
    /\ icon_type = ""
    /\ icons = <<>>
    /\ categories_used = {}
    /\ result = <<>>

\* category, keywords = categorize_icon(fn_arg)
CallCategorize ==
    /\ pc = "call"
    /\ fn_ret = <<>>
    /\ fn_ret' = <<categorize_icon(fn_arg)>>
    /\ UNCHANGED <<fn_arg, build_vars>>

NextCategorize == CallCategorize

SpecCategorize == InitCall /\ [][NextCategorize]_vars

\* create_display_name applied to the argument, then to its own result
CallDisplayName ==
    /\ pc = "call"
    /\ Len(fn_ret) < MaxApply
    /\ fn_ret' = Append(fn_ret,
                        create_display_name(IF fn_ret = <<>> THEN fn_arg
                                            ELSE fn_ret[Len(fn_ret)]))
    /\ UNCHANGED <<fn_arg, build_vars>>

NextDisplayName == CallDisplayName

SpecDisplayName == InitCall /\ [][NextDisplayName]_vars

-----------------------------------------------------------------------------
(* Properties of the build loop.                                           *)

\* one pass of the for loop over the identifier icon_names[idx]
LoopPass == pc = "loop" /\ idx <= Len(icon_names) /\ idx' = idx + 1

\* the records a pass appended, given that icons' extends icons
Appended == SubSeq(icons', Len(icons) + 1, Len(icons'))

Extends == Len(icons') >= Len(icons) /\ SubSeq(icons', 1, Len(icons)) = icons

\* the text of a cssClass after its three-character prefix
AfterPrefix(css) == SubSeq(css, 4, Len(css))

\* C1: a pass over an identifier that ends with "-o" appends exactly two
\* records, the regular one and then the solid one; both are named by the
\* identifier without its last two characters and have the same displayName,
\* category and keywords; their cssClass differs in the prefix alone, "lar"
\* and "las".  A brand indicator inside the identifier changes nothing.
C1_OutlinePair ==
    [][ (LoopPass /\ endswith(icon_names[idx], "-o")) =>
          /\ Extends
          /\ Len(Appended) = 2
          /\ LET r == Appended[1]
                 s == Appended[2]
             IN  /\ r.iconType = "regular"
                 /\ s.iconType = "solid"
                 /\ r.name \o "-o" = icon_names[idx]
                 /\ s.name = r.name
                 /\ s.displayName = r.displayName
                 /\ s.category = r.category
                 /\ s.keywords = r.keywords
                 /\ SubSeq(r.cssClass, 1, 3) = "lar"
                 /\ SubSeq(s.cssClass, 1, 3) = "las"
                 /\ AfterPrefix(s.cssClass) = AfterPrefix(r.cssClass) ]_vars

\* C1 witness: the pair of "facebook-o", which holds a brand indicator, is
\* the end of the list
C1_Witness ==
    /\ pc = "loop"
    /\ icon_name = "facebook-o"
    /\ Len(icons) >= 2
    /\ icons[Len(icons) - 1].iconType = "regular"
    /\ icons[Len(icons)].iconType = "solid"
    /\ icons[Len(icons)].name = "facebook"

\* the iconType the precedence brand, regular, solid gives an identifier
TypeByPrecedence(n) ==
    LET brand   == \E b \in brand_indicators : Contains(b, n)
        outline == Contains("-o", n) \/ Contains("outline", n) \/ Contains("regular", n)
    IN  CASE brand -> "brand"
          [] ~brand /\ outline -> "regular"
          [] ~brand /\ ~outline -> "solid"

\* C2: a pass over an identifier that does not end with "-o" appends exactly
\* one record, named by the identifier unchanged, whose iconType is "brand"
\* if the identifier holds a brand indicator, else "regular" if it holds
\* "-o", "outline" or "regular", else "solid".
C2_SingleRecord ==
    [][ (LoopPass /\ ~endswith(icon_names[idx], "-o")) =>
          /\ Extends
          /\ Len(Appended) = 1
          /\ Appended[1].name = icon_names[idx]
          /\ Appended[1].iconType = TypeByPrecedence(icon_names[idx]) ]_vars

\* C2 witness: "google-outline" holds a brand indicator and "outline", and
\* its one record is a brand record
C2_Witness ==
    /\ pc = "loop"
    /\ icon_name = "google-outline"
    /\ icons # <<>>
    /\ icons[Len(icons)].name = "google-outline"
    /\ icons[Len(icons)].iconType = "brand"

\* the prefix-table entry of an iconType
PrefixOf(type) ==
    CASE type = "solid" -> "las"
      [] type = "regular" -> "lar"
      [] type = "brand" -> "lab"

\* C7 as claimed: every record's cssClass is "<prefix> <prefix>-<name>", the
\* prefix being the one its iconType selects.
C7_PrefixInSecondToken ==
    \A i \in DOMAIN icons :
        icons[i].cssClass =
            PrefixOf(icons[i].iconType) \o " " \o PrefixOf(icons[i].iconType)
                \o "-" \o icons[i].name

\* C7 as amended: every record's cssClass is "<prefix> la-<name>": the first
\* token is the prefix its iconType selects, the second token is the fixed
\* "la-" followed by the record's name, for a single record and for both
\* records of an expanded "-o" pair.
C7_FixedLaToken ==
    \A i \in DOMAIN icons :
        icons[i].cssClass = PrefixOf(icons[i].iconType) \o " la-" \o icons[i].name

\* C7 witness: the list holds the pair of "star-o" and then the brand record
\* of "google-outline"
C7_Witness ==
    /\ Len(icons) = 3
    /\ icons[1].cssClass = "lar la-star"
    /\ icons[2].cssClass = "las la-star"
    /\ icons[3].cssClass = "lab la-google-outline"

\* the categories of the records of a list
CategoriesOf(recs) == {recs[i].category : i \in DOMAIN recs}

\* a line with a character that is not whitespace
NonBlank(line) == \E i \in 1..Len(line) : Char(line, i) \notin Whitespace

\* C8: in the returned document the keys of `categories` are exactly the
\* categories of the records of `icons`, and metadata.categories holds the
\* same tags; a file without a non-blank line gives an empty mapping and an
\* empty list.
C8_CategoriesCoverRecords ==
    pc = "done" =>
        /\ DOMAIN result.categories = CategoriesOf(result.icons)
        /\ BagToSet(result.metadata.categories) = CategoriesOf(result.icons)
        /\ (\A i \in DOMAIN file_lines : ~NonBlank(file_lines[i])) =>
               /\ DOMAIN result.categories = {}
               /\ result.icons = <<>>

\* C8 witness: the document of a file with "home" and "js" has exactly the
\* keys interface and brand
C8_Witness ==
    /\ pc = "done"
    /\ Len(result.icons) = 2
    /\ DOMAIN result.categories = {"interface", "brand"}
    /\ result.categories["brand"] = "Brand & Social Media"

\* the non-blank lines among the first n lines of the file
NonBlankUpTo(n) == {i \in 1..n : NonBlank(file_lines[i])}

\* a line whose last two characters before its trailing whitespace are "-o"
TrimmedEndsInO(line) ==
    \E j \in 2..Len(line) :
        /\ SubSeq(line, j - 1, j) = "-o"
        /\ \A k \in (j + 1)..Len(line) : Char(line, k) \in Whitespace

\* the number of records the first k identifiers give
RecordsOfFirst(k) ==
    k + Cardinality({j \in 1..k : endswith(icon_names[j], "-o")})

\* C9: the identifiers are the non-blank lines, stripped, in file order; and
\* after any number of passes the list is, in that order, one group per
\* processed identifier: its regular and solid record side by side if it
\* ends with "-o", its single record otherwise.
C9_InputOrder ==
    pc \in {"loop", "done"} =>
        /\ Len(icon_names) = Cardinality(NonBlankUpTo(Len(file_lines)))
        /\ \A i \in NonBlankUpTo(Len(file_lines)) :
              icon_names[Cardinality(NonBlankUpTo(i))] = strip(file_lines[i])
        /\ Len(icons) = RecordsOfFirst(idx - 1)
        /\ \A k \in 1..(idx - 1) :
              LET at == RecordsOfFirst(k - 1)
              IN  IF endswith(icon_names[k], "-o")
                  THEN /\ icons[at + 1].name \o "-o" = icon_names[k]
                       /\ icons[at + 1].iconType = "regular"
                       /\ icons[at + 2].name \o "-o" = icon_names[k]
                       /\ icons[at + 2].iconType = "solid"
                  ELSE icons[at + 1].name = icon_names[k]

\* C9 witness: the file "bell-o", "home" gave bell (regular), bell (solid),
\* home
C9_Witness ==
    /\ pc = "loop"
    /\ icon_names = <<"bell-o", "home">>
    /\ Len(icons) = 3
    /\ icons[1].name = "bell" /\ icons[1].iconType = "regular"
    /\ icons[2].name = "bell" /\ icons[2].iconType = "solid"
    /\ icons[3].name = "home"

\* C10: metadata.totalIcons is the length of `icons`, which is the number of
\* non-blank lines plus the number of non-blank lines that end in "-o" once
\* trimmed; blank and whitespace-only lines give no record.
C10_TotalIcons ==
    pc = "done" =>
        /\ result.metadata.totalIcons = Len(result.icons)
        /\ Len(result.icons) =
               Cardinality(NonBlankUpTo(Len(file_lines)))
               + Cardinality({i \in NonBlankUpTo(Len(file_lines)) :
                                 TrimmedEndsInO(file_lines[i])})

\* C10 witness: a whitespace-only line and the padded line "  star-o " give
\* a document of two icons
C10_Witness ==
    /\ pc = "done"
    /\ file_lines = <<" \t\n", "  star-o \n">>
    /\ result.metadata.totalIcons = 2
    /\ Len(result.icons) = 2

\* C12 as claimed: when the identifiers read from the file are pairwise
\* distinct, no two records of the list have the same name and the same
\* iconType, and two records of the same name have the same category.
C12_NoDuplicateRecords ==
    (pc \in {"loop", "done"}
       /\ \A a, b \in DOMAIN icon_names : a # b => icon_names[a] # icon_names[b]) =>
        \A i, j \in DOMAIN icons :
            (i # j /\ icons[i].name = icons[j].name) =>
                /\ icons[i].iconType # icons[j].iconType
                /\ icons[i].category = icons[j].category

-----------------------------------------------------------------------------
(* Properties of categorize_icon, called directly.                         *)

Returned == pc = "call" /\ fn_ret # <<>>

\* the 12 membership tables in their fixed order
TableOrder ==
    << "brand", "accessibility", "arrows", "medical", "communication", "files",
       "interface", "text", "emotions", "transportation", "food", "science" >>

\* the places in TableOrder of the tables that hold n as an element
TablesHolding(n) == {i \in 1..Len(TableOrder) : n \in categories[TableOrder[i]]}

Least(S) == CHOOSE i \in S : \A j \in S : i <= j

HoldsBrandName(n) == \E b \in brand_icons : Contains(b, n)

\* C3: the category is the first table, in the fixed table order, that holds
\* the identifier as an element, also when a brand-name substring pre-seeded
\* "brand"; an identifier in no table is "brand" if it holds a brand name as
\* a substring and "misc" otherwise.  The category is one of the 13 tags.
C3_Category ==
    Returned =>
        LET cat == fn_ret[1][1]
            at  == TablesHolding(fn_arg)
        IN  /\ cat \in Range(TableOrder) \cup {"misc"}
            /\ at # {} => cat = TableOrder[Least(at)]
            /\ (at = {} /\ HoldsBrandName(fn_arg)) => cat = "brand"
            /\ (at = {} /\ ~HoldsBrandName(fn_arg)) => cat = "misc"

\* C3 witness: "plus" is listed under medical and under interface, and is
\* medical
C3_Witness ==
    /\ Returned
    /\ fn_arg = "plus"
    /\ TablesHolding("plus") = {4, 7}
    /\ fn_ret[1][1] = "medical"

\* C4 as claimed: an identifier that holds a brand name as a substring is
\* always categorized "brand".
C4_BrandAlwaysWins ==
    (Returned /\ HoldsBrandName(fn_arg)) => fn_ret[1][1] = "brand"

\* C4 as amended: an identifier that holds a brand name as a substring is
\* categorized "brand" unless it is an element of a membership table; then
\* the first table that holds it decides, and a table other than the brand
\* table overrides "brand".
C4_TableOverridesBrand ==
    (Returned /\ HoldsBrandName(fn_arg)) =>
        LET cat == fn_ret[1][1]
            at  == TablesHolding(fn_arg)
        IN  IF at = {} \/ 1 \in at
            THEN cat = "brand"
            ELSE cat # "brand" /\ cat = TableOrder[Least(at)]

\* C4 witness: "underline" holds the brand name "line", is an element of
\* the text table, and is categorized "text"
C4_Witness ==
    /\ Returned
    /\ fn_arg = "underline"
    /\ Contains("line", fn_arg) /\ "line" \in brand_icons
    /\ fn_ret[1][1] = "text"

\* the boilerplate keywords of a category, none for "brand" and "misc"
Boilerplate(cat) ==
    IF cat \in DOMAIN category_keywords THEN Range(category_keywords[cat]) ELSE {}

\* the keywords C5 describes for an identifier n of category cat
KeywordSet(n, cat) ==
    LET seed == IF HoldsBrandName(n)
                THEN {"brand", "social", "platform", "service"} ELSE {}
        all  == seed \cup Range(split(n, "-")) \cup Boilerplate(cat)
    IN  {k \in all : Len(k) > 1}

\* C5: the keywords are, each exactly once, the brand seed (if the identifier
\* holds a brand name, whatever the final category), the hyphen-separated
\* segments of the identifier and the boilerplate of the final category,
\* without the entries of length <= 1: no empty string, no single character,
\* no entry twice.
C5_Keywords ==
    Returned =>
        LET cat == fn_ret[1][1]
            kws == fn_ret[1][2]
        IN  /\ kws = SetToBag(KeywordSet(fn_arg, cat))
            /\ \A k \in DOMAIN kws : k # "" /\ Len(k) >= 2 /\ kws[k] = 1

\* C5 witness: "toggle-on" holds the brand name "gg" and is an interface
\* icon: its keywords hold the seed, both segments and the interface
\* boilerplate
C5_Witness ==
    /\ Returned
    /\ fn_arg = "toggle-on"
    /\ fn_ret[1][1] = "interface"
    /\ {"brand", "toggle", "on", "ui"} \subseteq DOMAIN fn_ret[1][2]

-----------------------------------------------------------------------------
(* Properties of create_display_name, called directly.                     *)

\* fn_arg is a key of the abbreviation table whose value is not empty
ExpandingKey == fn_arg \in DOMAIN special_cases /\ special_cases[fn_arg] # ""

\* t is s with every upper-case letter after the first character replaced by
\* its lower-case letter
LoweredAfterFirst(s, t) ==
    /\ Len(t) = Len(s)
    /\ \A i \in 1..Len(s) :
          Char(t, i) = IF i = 1 THEN Char(s, 1)
                       ELSE MapChar(Char(s, i), UpperCase, LowerCase)

\* C6 as claimed: for a key with a non-empty value, create_display_name of
\* the expanded value is that value again.
C6_Idempotent ==
    (pc = "call" /\ ExpandingKey /\ Len(fn_ret) >= 2) => fn_ret[2] = fn_ret[1]

\* C6 as amended: for a key with a non-empty value, create_display_name of
\* the key is the table's value; applied to that value it substitutes
\* nothing, keeps the first character and lower-cases every later letter
\* ("JavaScript" gives "Javascript", "USA" gives "Usa"), so it returns the
\* value itself only when no later letter is upper case ("Alternative");
\* applied once more it returns its argument unchanged.
C6_LowersAfterFirst ==
    (pc = "call" /\ ExpandingKey) =>
        /\ Len(fn_ret) >= 1 => fn_ret[1] = special_cases[fn_arg]
        /\ Len(fn_ret) >= 2 => LoweredAfterFirst(fn_ret[1], fn_ret[2])
        /\ Len(fn_ret) >= 3 => fn_ret[3] = fn_ret[2]

\* C6 witness: "js" expands to "JavaScript", and that to "Javascript"
C6_Witness ==
    /\ pc = "call"
    /\ fn_arg = "js"
    /\ Len(fn_ret) >= 2
    /\ fn_ret[1] = "JavaScript"
    /\ fn_ret[2] = "Javascript"

\* the segments of a list other than "o", in order
RECURSIVE WithoutO(_)
WithoutO(segs) ==
    IF segs = <<>> THEN <<>>
    ELSE (IF Head(segs) = "o" THEN <<>> ELSE <<Head(segs)>>) \o WithoutO(Tail(segs))

\* the word a segment other than "o" gives: the table's value for a key, the
\* segment with its first letter in upper case otherwise
WordOf(seg) ==
    IF seg \in DOMAIN special_cases THEN special_cases[seg]
    ELSE MapChar(Char(seg, 1), LowerCase, UpperCase) \o Tail(seg)

\* C11: for a name whose hyphen-separated segments are all non-empty, the
\* display name is made of the words of the segments other than "o", in
\* order, one space between two words: no space at either end, no two spaces
\* in a row, and as many words as there are segments other than "o".
C11_DropsO ==
    (pc = "call" /\ fn_ret # <<>> /\ \A i \in DOMAIN split(fn_arg, "-") :
                                        split(fn_arg, "-")[i] # "") =>
        LET kept == WithoutO(split(fn_arg, "-"))
            out  == fn_ret[1]
        IN  /\ ~endswith(out, " ")
            /\ ~Contains("  ", out)
            /\ out = "" \/ Char(out, 1) # " "
            /\ kept = <<>> => out = ""
            /\ kept # <<>> =>
                  /\ Len(split(out, " ")) = Len(kept)
                  /\ \A i \in DOMAIN kept : split(out, " ")[i] = WordOf(kept[i])

\* C11 witness: "o-pdf" has the segments "o" and "pdf" and gives the one
\* word "PDF"
C11_Witness ==
    /\ pc = "call"
    /\ fn_arg = "o-pdf"
    /\ fn_ret # <<>>
    /\ fn_ret[1] = "PDF"

=============================================================================
